---------------------------- MODULE Spec2Model ----------------------------
(***************************************************************************)
(* A model of pagewielder's command-line layer (src/pagewielder/cli.py)    *)
(* and its dimension grouper (src/pagewielder/core.py).                    *)
(*                                                                         *)
(* Strings are sequences of one-character strings, so that str.split and   *)
(* int() are computed on the characters as Python computes them.  The      *)
(* alphabets below hold digits, the two separators, a minus sign and one   *)
(* character ("x") that stands for every character int() rejects.  The     *)
(* other spellings int() accepts ("+", surrounding blanks, "_") are not in *)
(* the alphabets.                                                          *)
(*                                                                         *)
(* The PDF library is an opaque collaborator: a document is a sequence of  *)
(* pages, a page is a record of its identity (its position in the input)   *)
(* and its media box, and the file system maps a path to a file.  The      *)
(* input is always a readable PDF: library and I/O errors are not          *)
(* modelled.                                                               *)
(***************************************************************************)
EXTENDS Integers, Sequences, FiniteSets, TLC

VARIABLES
    pc,                  \* "start", "awaiting" (blocked in input()), "done"
    args,                \* the parsed command line: func, input, output
    page_range,          \* args.pages of excerpt
    output_path,         \* the command's local output_path
    fs,                  \* the file system: path -> file
    dimensions_to_pages, \* filter_command's local of that name
    stdin,               \* the line typed at the prompt and not yet read
    selection,           \* maybe_selected_dimensions
    parsed,              \* what parse_page_range returned or raised
    reads,               \* the offsets excerpt_command read from input_pdf.pages
    stdout,              \* messages printed to standard output
    stderr,              \* messages printed to standard error
    saves,               \* the paths Pdf.save was invoked with, in order
    exit_code            \* the command's return value

vars == <<pc, args, page_range, output_path, fs, dimensions_to_pages,
          stdin, selection, parsed, reads, stdout, stderr, saves,
          exit_code>>

---------------------------------------------------------------------------
(* Bounds *)

MaxPages == 3

MaxRangeLen == 3

MaxLineLen == 3

MaxRetries == 2

---------------------------------------------------------------------------
(* Characters and strings *)

DigitChars == <<"0", "1", "2", "3", "4", "5", "6", "7", "8", "9">>

IsDigit(c) == \E i \in DOMAIN DigitChars : DigitChars[i] = c

DigitVal(c) == (CHOOSE i \in DOMAIN DigitChars : DigitChars[i] = c) - 1

RangeChars == {"0", "1", "2", "3", "4", ":", "-", "x"}

LineChars == {"0", "1", "2", ",", "-", "x"}

StringsUpTo(chars, n) == UNION {[1..k -> chars] : k \in 0..n}

RangeStrings == StringsUpTo(RangeChars, MaxRangeLen)

Lines == StringsUpTo(LineChars, MaxLineLen)

\* The first position of sep in s, or 0.
Find(s, sep) ==
    IF \E i \in DOMAIN s : s[i] = sep
    THEN CHOOSE i \in DOMAIN s : s[i] = sep /\ \A j \in 1..(i-1) : s[j] # sep
    ELSE 0

\* str.split(sep, 1)
Split1(s, sep) ==
    LET i == Find(s, sep)
    IN  IF i = 0 THEN <<s>>
        ELSE <<SubSeq(s, 1, i-1), SubSeq(s, i+1, Len(s))>>

\* str.split(sep)
RECURSIVE Split(_, _)
Split(s, sep) ==
    LET i == Find(s, sep)
    IN  IF i = 0 THEN <<s>>
        ELSE <<SubSeq(s, 1, i-1)>> \o Split(SubSeq(s, i+1, Len(s)), sep)

\* The value of a sequence of digits, most significant first.
RECURSIVE DigitsValue(_)
DigitsValue(ds) ==
    IF ds = <<>> THEN 0
    ELSE 10 * DigitsValue(SubSeq(ds, 1, Len(ds)-1)) + DigitVal(ds[Len(ds)])

\* str(n) of a natural number.
RECURSIVE NatStr(_)
NatStr(n) ==
    IF n < 10 THEN <<DigitChars[n+1]>>
    ELSE NatStr(n \div 10) \o <<DigitChars[(n % 10) + 1]>>

\* str(n), as an f-string renders an int.
Str(n) == IF n < 0 THEN <<"-">> \o NatStr(0 - n) ELSE NatStr(n)

IntError(tok) == <<"invalid literal for int() with base 10: '">> \o tok \o <<"'">>

\* int(tok): an optional sign and at least one digit, or ValueError.
PyInt(tok) ==
    LET neg  == tok # <<>> /\ tok[1] = "-"
        body == IF neg THEN Tail(tok) ELSE tok
    IN  IF body # <<>> /\ \A i \in DOMAIN body : IsDigit(body[i])
        THEN [ok |-> TRUE,
              val |-> IF neg THEN 0 - DigitsValue(body) ELSE DigitsValue(body),
              msg |-> <<>>]
        ELSE [ok |-> FALSE, val |-> 0, msg |-> IntError(tok)]

---------------------------------------------------------------------------
(* Values of the model *)

None == "None"

InputPath == "in.pdf"

OutPath == "out.pdf"

TmpPath == "tmp.pdf"

Paths == {InputPath, OutPath, TmpPath}

MediaBoxes == {<<0, 0, 612, 792>>, <<10, 10, 310, 310>>}

Documents ==
    UNION {[1..n -> MediaBoxes] : n \in 0..MaxPages}

Page(i, box) == [id |-> i, mediabox |-> box]

PagesOf(boxes) == [i \in DOMAIN boxes |-> Page(i, boxes[i])]

Absent == [exists |-> FALSE, pages |-> <<>>]

EmptyFile == [exists |-> TRUE, pages |-> <<>>]

PdfFile(pages) == [exists |-> TRUE, pages |-> pages]

InitFs(pages) == [p \in Paths |-> IF p = InputPath THEN PdfFile(pages) ELSE Absent]

NoLine == [pending |-> FALSE, line |-> <<>>]

TypedLine(line) == [pending |-> TRUE, line |-> line]

NoSelection == [is_none |-> TRUE, value |-> {}]

Some(s) == [is_none |-> FALSE, value |-> s]

NotParsed == [called |-> FALSE, ok |-> FALSE, start |-> 0, end |-> 0,
              exc |-> "", msg |-> <<>>]

Returned(start, end) == [called |-> TRUE, ok |-> TRUE, start |-> start,
                         end |-> end, exc |-> "", msg |-> <<>>]

Raised(msg) == [called |-> TRUE, ok |-> FALSE, start |-> 0, end |-> 0,
                exc |-> "ValueError", msg |-> msg]


---------------------------------------------------------------------------
(* core.py *)

\* Rectangle(page.mediabox).width and .height: the box is (llx, lly, urx, ury).
_get_dimensions(page) ==
    <<page.mediabox[3] - page.mediabox[1], page.mediabox[4] - page.mediabox[2]>>

\* A dict keeps its keys in insertion order: a sequence of (key, pages) entries.
DictKeys(d) == [i \in DOMAIN d |-> d[i].key]

DictHas(d, key) == \E i \in DOMAIN d : d[i].key = key

DictGet(d, key) == d[CHOOSE i \in DOMAIN d : d[i].key = key].pages

\* ret[dimensions].add(n) on a defaultdict(set)
DictAdd(d, key, n) ==
    IF DictHas(d, key)
    THEN [i \in DOMAIN d |->
            IF d[i].key = key THEN [d[i] EXCEPT !.pages = @ \cup {n}] ELSE d[i]]
    ELSE Append(d, [key |-> key, pages |-> {n}])

\* Fault: the 0-based offset is recorded as it is.
PageOrdinal_ZeroBased(i) == i

\* The ordinal the loop records for the page at 0-based offset i.
PageOrdinal(i) == i + 1

\* The loop of map_dimensions_to_pages from 0-based offset i on.
RECURSIVE MapLoop(_, _, _)
MapLoop(pages, i, ret) ==
    IF i >= Len(pages) THEN ret
    ELSE MapLoop(pages, i + 1,
                 DictAdd(ret, _get_dimensions(pages[i + 1]), PageOrdinal(i)))

map_dimensions_to_pages(pdf) == MapLoop(pdf, 0, <<>>)

---------------------------------------------------------------------------
(* cli.py: Prompt *)

AVAILABLE_DIMENSIONS ==
    <<"Available dimensions (width x height) and number of pages:">>

SELECT_DIMENSIONS ==
    <<"Select page sets to remove by index (comma-separated) or press Enter to cancel: ">>

INVALID_INPUT ==
    <<"Invalid input. Please enter valid indices separated by commas.\n">>

---------------------------------------------------------------------------
(* cli.py: parse_page_range *)

\* "out of range" in str(e).  The only piece of a message that contains the
\* words is the one of the page-out-of-range message: no token over the
\* alphabets spells them.
ContainsOutOfRange(msg) == \E i \in DOMAIN msg : msg[i] = " is out of range (1-"

\* The handler of the single-page branch: re-raise e, or wrap it.
SingleHandler(msg, tok) ==
    IF ContainsOutOfRange(msg) THEN Raised(msg)
    ELSE Raised(<<"Invalid page number: ">> \o tok)

\* Fault: page < 0, so that page 0 passes.
PageOutOfRange_AdmitsZero(page, total_pages) == page < 0 \/ page > total_pages

\* The test of the single-page branch.
PageOutOfRange(page, total_pages) == page < 1 \/ page > total_pages

\* len(parts) == 1
SinglePage(tok, total_pages) ==
    LET n == PyInt(tok)
    IN  IF ~n.ok THEN SingleHandler(n.msg, tok)
        ELSE IF PageOutOfRange(n.val, total_pages)
        THEN SingleHandler(<<"Page ">> \o Str(n.val) \o <<" is out of range (1-">>
                           \o Str(total_pages) \o <<")">>, tok)
        ELSE Returned(n.val, n.val)

\* Fault: no default, an empty start goes to int().
RangeStart_NoDefault(start_str) == PyInt(start_str)

\* start = 1 if not start_str else int(start_str)
RangeStart(start_str) ==
    IF start_str = <<>> THEN [ok |-> TRUE, val |-> 1, msg |-> <<>>]
    ELSE PyInt(start_str)

\* Fault: the default end is the last 0-based offset.
RangeEnd_LastOffset(end_str, total_pages) ==
    IF end_str = <<>> THEN [ok |-> TRUE, val |-> total_pages - 1, msg |-> <<>>]
    ELSE PyInt(end_str)

\* end = total_pages if not end_str else int(end_str)
RangeEnd(end_str, total_pages) ==
    IF end_str = <<>> THEN [ok |-> TRUE, val |-> total_pages, msg |-> <<>>]
    ELSE PyInt(end_str)

\* Fault: the start > end check is missing.
RangeChecks_NoOrderCheck(start, end, total_pages) ==
    IF start < 1
    THEN Raised(<<"Start page ">> \o Str(start) \o <<" must be >= 1">>)
    ELSE IF end > total_pages
    THEN Raised(<<"End page ">> \o Str(end) \o <<" exceeds total pages (">>
                \o Str(total_pages) \o <<")">>)
    ELSE Returned(start, end)

\* The three checks of the range branch, and its return.
RangeChecks(start, end, total_pages) ==
    IF start < 1
    THEN Raised(<<"Start page ">> \o Str(start) \o <<" must be >= 1">>)
    ELSE IF end > total_pages
    THEN Raised(<<"End page ">> \o Str(end) \o <<" exceeds total pages (">>
                \o Str(total_pages) \o <<")">>)
    ELSE IF start > end
    THEN Raised(<<"Start page ">> \o Str(start) \o <<" must be <= end page ">>
                \o Str(end))
    ELSE Returned(start, end)

\* len(parts) == 2.  A ValueError of int() is not caught here.
RangePages(start_str, end_str, total_pages) ==
    LET s == RangeStart(start_str)
        e == RangeEnd(end_str, total_pages)
    IN  IF ~s.ok THEN Raised(s.msg)
        ELSE IF ~e.ok THEN Raised(e.msg)
        ELSE RangeChecks(s.val, e.val, total_pages)

parse_page_range(range_str, total_pages) ==
    LET parts == Split1(range_str, ":")
    IN  IF Len(parts) = 1 THEN SinglePage(parts[1], total_pages)
        ELSE IF Len(parts) = 2 THEN RangePages(parts[1], parts[2], total_pages)
        ELSE Raised(<<"Invalid page range format: ">> \o range_str)

---------------------------------------------------------------------------
(* cli.py: select_dimensions *)

\* list[i]: offsets 0..len-1, and -len..-1 counted from the end; else IndexError.
PyIndex(list, i) ==
    IF 0 <= i /\ i < Len(list) THEN [ok |-> TRUE, val |-> list[i + 1], exc |-> ""]
    ELSE IF 0 - Len(list) <= i /\ i < 0
    THEN [ok |-> TRUE, val |-> list[Len(list) + i + 1], exc |-> ""]
    ELSE [ok |-> FALSE, val |-> <<>>, exc |-> "IndexError"]

\* dimensions_list[int(index)]
LookupIndex(dimensions_list, index) ==
    LET n == PyInt(index)
    IN  IF ~n.ok THEN [ok |-> FALSE, val |-> <<>>, exc |-> "ValueError"]
        ELSE PyIndex(dimensions_list, n.val)

\* f"{x:.2f}" of a whole number (the media boxes of the model are whole).
Fmt2f(x) == Str(x) \o <<".", "0", "0">>

\* The listing printed before the loop: one line per key.
Listing(d) ==
    [i \in DOMAIN d |->
        Str(i - 1) \o <<": ">> \o Fmt2f(d[i].key[1]) \o <<" x ">>
        \o Fmt2f(d[i].key[2]) \o <<" (">> \o Str(Cardinality(d[i].pages))
        \o <<" pages)">>]

\* Fault: an empty line returns an empty set, not None.
EmptyLineResult_EmptySet == [kind |-> "return", value |-> Some({})]

\* What an empty line makes the loop return.
EmptyLineResult == [kind |-> "return", value |-> NoSelection]

\* One pass of the while loop on the line read: return None, return the set,
\* or (ValueError, IndexError) print INVALID_INPUT and go round again.
SelectLine(dimensions_list, line) ==
    IF line = <<>> THEN EmptyLineResult
    ELSE LET selected_dimensions == Split(line, ",")
             looked == [i \in DOMAIN selected_dimensions |->
                          LookupIndex(dimensions_list, selected_dimensions[i])]
         IN  IF \A i \in DOMAIN looked : looked[i].ok
             THEN [kind |-> "return",
                   value |-> Some({looked[i].val : i \in DOMAIN looked})]
             ELSE [kind |-> "retry", value |-> NoSelection]

---------------------------------------------------------------------------
(* cli.py: the commands *)

\* output_path after the if/else on args.output.
ResolveOutput(output) == IF output # None THEN output ELSE TmpPath

\* NamedTemporaryFile(suffix=".pdf", delete=False) creates the file and the
\* with block closes it: an empty file stays at its path.
FsAfterResolve(files, output) ==
    IF output # None THEN files ELSE [files EXCEPT ![TmpPath] = EmptyFile]

SAME_PATH_MESSAGE == <<"Input and output paths must be different.">>

NO_SELECTION_MESSAGE == <<"No page sets selected. No output file created.">>

\* selected_pages after the update loop.
SelectedPages(d, selected_dimensions) ==
    UNION {DictGet(d, dims) : dims \in selected_dimensions}

\* Fault: the test is inverted, the selected pages are the ones kept.
KeepPage_Inverted(i, selected_pages) == i \in selected_pages

\* if i not in selected_pages
KeepPage(i, selected_pages) == i \notin selected_pages

\* The append loop of filter_command from ordinal i on (enumerate, start=1).
RECURSIVE FilterLoop(_, _, _, _)
FilterLoop(pages, i, selected_pages, out) ==
    IF i > Len(pages) THEN out
    ELSE FilterLoop(pages, i + 1, selected_pages,
                    IF KeepPage(i, selected_pages) THEN Append(out, pages[i])
                    ELSE out)

\* Fault: range(start_page, end_page), the 1-based start used as an offset.
ExcerptOffsets_SkipsFirst(start_page, end_page) ==
    [k \in 1..(end_page - start_page) |-> start_page + (k - 1)]

\* range(start_page - 1, end_page)
ExcerptOffsets(start_page, end_page) ==
    [k \in 1..(end_page - (start_page - 1)) |-> (start_page - 1) + (k - 1)]

\* 's' if page_count != 1 else ''
PluralSuffix(page_count) == IF page_count # 1 THEN <<"s">> ELSE <<>>

ExtractedMessage(start_page, end_page, path) ==
    LET page_count == end_page - start_page + 1
    IN  <<"Extracted ">> \o Str(page_count) \o <<" page">>
        \o PluralSuffix(page_count) \o <<" (">> \o Str(start_page) \o <<":">>
        \o Str(end_page) \o <<") to ">> \o <<path>>

Retries(out) == Cardinality({i \in DOMAIN out : out[i] = INVALID_INPUT})

Init ==
    /\ pc = "start"
    /\ args \in [func : {"filter_command", "excerpt_command"},
                 input : {InputPath},
                 output : {None, InputPath, OutPath}]
    /\ \E boxes \in Documents : fs = InitFs(PagesOf(boxes))
    /\ page_range = <<>>
    /\ output_path = None
    /\ dimensions_to_pages = <<>>
    /\ stdin = NoLine
    /\ selection = NoSelection
    /\ parsed = NotParsed
    /\ reads = <<>>
    /\ stdout = <<>>
    /\ stderr = <<>>
    /\ saves = <<>>
    /\ exit_code = None

\* filter_command up to the first input() of select_dimensions.
FilterStart ==
    /\ pc = "start"
    /\ args.func = "filter_command"
    /\ LET out   == ResolveOutput(args.output)
           files == FsAfterResolve(fs, args.output)
       IN  /\ output_path' = out
           /\ fs' = files
           /\ IF args.input = out
              THEN /\ stderr' = Append(stderr, SAME_PATH_MESSAGE)
                   /\ exit_code' = 1
                   /\ pc' = "done"
                   /\ UNCHANGED <<dimensions_to_pages, stdout>>
              ELSE LET d == map_dimensions_to_pages(files[args.input].pages)
                   IN  /\ dimensions_to_pages' = d
                       /\ stdout' = <<AVAILABLE_DIMENSIONS>> \o Listing(d)
                                    \o <<SELECT_DIMENSIONS>>
                       /\ pc' = "awaiting"
                       /\ UNCHANGED <<stderr, exit_code>>
    /\ UNCHANGED <<args, page_range, stdin, selection, parsed, reads, saves>>

\* The user types a line while the command is blocked in input().
TypeLine ==
    /\ pc = "awaiting"
    /\ ~stdin.pending
    /\ \E line \in Lines : stdin' = TypedLine(line)
    /\ UNCHANGED <<pc, args, page_range, output_path, fs, dimensions_to_pages,
                   selection, parsed, reads, stdout, stderr, saves, exit_code>>

\* input() returns the typed line: the rest of the pass of select_dimensions
\* and, when it returns, the rest of filter_command.
FilterInput ==
    /\ pc = "awaiting"
    /\ stdin.pending
    /\ stdin' = NoLine
    /\ LET user_input == stdin.line
           r == SelectLine(DictKeys(dimensions_to_pages), user_input)
       IN  IF r.kind = "retry"
           THEN /\ Retries(stdout) < MaxRetries
                /\ stdout' = stdout \o <<INVALID_INPUT, SELECT_DIMENSIONS>>
                /\ UNCHANGED <<pc, selection, fs, stderr, saves, exit_code>>
           ELSE IF r.value.is_none
           THEN /\ selection' = r.value
                /\ stderr' = Append(stderr, NO_SELECTION_MESSAGE)
                /\ exit_code' = 1
                /\ pc' = "done"
                /\ UNCHANGED <<fs, stdout, saves>>
           ELSE LET selected_pages ==
                        SelectedPages(dimensions_to_pages, r.value.value)
                    output_pdf ==
                        FilterLoop(fs[args.input].pages, 1, selected_pages, <<>>)
                IN  /\ selection' = r.value
                    /\ fs' = [fs EXCEPT ![output_path] = PdfFile(output_pdf)]
                    /\ saves' = Append(saves, output_path)
                    /\ stdout' = Append(stdout, <<"Filtered PDF saved as ">>
                                                \o <<output_path>>)
                    /\ exit_code' = 0
                    /\ pc' = "done"
                    /\ UNCHANGED stderr
    /\ UNCHANGED <<args, page_range, output_path, dimensions_to_pages, parsed, reads>>

\* excerpt_command, whole.  args.pages is drawn where it is first read, at
\* the call of parse_page_range.
Excerpt ==
    /\ pc = "start"
    /\ args.func = "excerpt_command"
    /\ LET out   == ResolveOutput(args.output)
           files == FsAfterResolve(fs, args.output)
       IN  /\ output_path' = out
           /\ pc' = "done"
           /\ IF args.input = out
              THEN /\ stderr' = Append(stderr, SAME_PATH_MESSAGE)
                   /\ exit_code' = 1
                   /\ fs' = files
                   /\ UNCHANGED <<page_range, parsed, reads, stdout, saves>>
              ELSE \E range_str \in RangeStrings :
                   LET input_pdf   == files[args.input].pages
                       total_pages == Len(input_pdf)
                       p           == parse_page_range(range_str, total_pages)
                       offsets     == ExcerptOffsets(p.start, p.end)
                       got         == [k \in DOMAIN offsets |->
                                          PyIndex(input_pdf, offsets[k])]
                   IN  /\ page_range' = range_str
                       /\ parsed' = p
                       /\ IF ~p.ok
                          THEN /\ stderr' = Append(stderr, <<"Error: ">> \o p.msg)
                               /\ exit_code' = 1
                               /\ fs' = files
                               /\ UNCHANGED <<reads, stdout, saves>>
                          ELSE IF \E k \in DOMAIN got : ~got[k].ok
                          THEN \* an IndexError leaves the command: a traceback
                               /\ reads' = offsets
                               /\ stderr' = Append(stderr, <<"IndexError">>)
                               /\ exit_code' = 1
                               /\ fs' = files
                               /\ UNCHANGED <<stdout, saves>>
                          ELSE /\ reads' = offsets
                               /\ fs' = [files EXCEPT ![out] =
                                           PdfFile([k \in DOMAIN got |-> got[k].val])]
                               /\ saves' = Append(saves, out)
                               /\ stdout' = Append(stdout,
                                              ExtractedMessage(p.start, p.end, out))
                               /\ exit_code' = 0
                               /\ UNCHANGED stderr
    /\ UNCHANGED <<args, dimensions_to_pages, stdin, selection>>

Next == FilterStart \/ TypeLine \/ FilterInput \/ Excerpt

Spec == Init /\ [][Next]_vars

---------------------------------------------------------------------------
(* Vocabulary of the properties *)

\* The input document and its page count.
InputDoc == fs[args.input].pages

TotalPages == Len(InputDoc)

FilterRan == args.func = "filter_command" /\ pc \in {"awaiting", "done"}
             /\ args.input # output_path

ExcerptParsed == args.func = "excerpt_command" /\ pc = "done" /\ parsed.called

\* A decimal integer literal: an optional minus sign and at least one digit.
DecimalLiteral(tok) ==
    LET body == IF tok # <<>> /\ tok[1] = "-" THEN Tail(tok) ELSE tok
    IN  body # <<>> /\ \A i \in DOMAIN body : body[i] \in
            {"0", "1", "2", "3", "4", "5", "6", "7", "8", "9"}

LiteralValue(tok) == PyInt(tok).val

Tokens(line) == {Split(line, ",")[i] : i \in DOMAIN Split(line, ",")}

\* C1: for every document, the page sets of map_dimensions_to_pages are
\* non-empty, pairwise disjoint, cover exactly 1..len(pages), and page i is
\* in the set keyed by d if and only if page i has dimensions d; equal
\* dimensions share one key wherever they appear.
C1_GroupingPartitions ==
    FilterRan =>
        LET d == dimensions_to_pages
        IN  /\ \A i, j \in DOMAIN d : d[i].key = d[j].key => i = j
            /\ \A i \in DOMAIN d : d[i].pages # {}
            /\ \A i, j \in DOMAIN d : i # j => d[i].pages \cap d[j].pages = {}
            /\ UNION {d[i].pages : i \in DOMAIN d} = 1..TotalPages
            /\ \A n \in 1..TotalPages : \A i \in DOMAIN d :
                 n \in d[i].pages <=> _get_dimensions(InputDoc[n]) = d[i].key

\* A three-page document whose first and last page share dimensions that the
\* middle page does not have: the two are grouped under one key.
C1_Witness ==
    /\ FilterRan
    /\ TotalPages = 3
    /\ _get_dimensions(InputDoc[1]) = _get_dimensions(InputDoc[3])
    /\ _get_dimensions(InputDoc[1]) # _get_dimensions(InputDoc[2])
    /\ \E i \in DOMAIN dimensions_to_pages : dimensions_to_pages[i].pages = {1, 3}

\* C2: when filter_command runs with differing paths and the selector
\* returns a set S, the saved document holds exactly the input pages whose
\* dimensions are not in S, in their original order and each once, and the
\* command returns 0.
C2_FilterKeepsUnselected ==
    (args.func = "filter_command" /\ pc = "done" /\ args.input # output_path
        /\ ~selection.is_none) =>
        LET out == fs[output_path].pages
            S   == selection.value
        IN  /\ exit_code = 0
            /\ fs[output_path].exists
            /\ saves = <<output_path>>
            /\ \A k \in DOMAIN out :
                 out[k].id \in 1..TotalPages /\ out[k] = InputDoc[out[k].id]
            /\ \A k, l \in DOMAIN out : k < l => out[k].id < out[l].id
            /\ {out[k].id : k \in DOMAIN out}
                 = {n \in 1..TotalPages : _get_dimensions(InputDoc[n]) \notin S}

\* Pages 1 and 2 of one dimension, page 3 of another; the first group is
\* selected and the output is page 3 alone.
C2_Witness ==
    /\ args.func = "filter_command" /\ pc = "done" /\ ~selection.is_none
    /\ TotalPages = 3
    /\ selection.value = {_get_dimensions(InputDoc[1])}
    /\ _get_dimensions(InputDoc[2]) = _get_dimensions(InputDoc[1])
    /\ fs[output_path].pages = <<InputDoc[3]>>

\* C3: when the range string parses to (start, end), the saved document is
\* the input pages start..end in original order, the command returns 0, and
\* the report gives the count end - start + 1 with "page" for a count of 1
\* and "pages" otherwise.
C3_ExcerptExtractsRange ==
    (ExcerptParsed /\ parsed.ok) =>
        LET n == parsed.end - parsed.start + 1
        IN  /\ exit_code = 0
            /\ saves = <<output_path>>
            /\ fs[output_path].exists
            /\ fs[output_path].pages
                 = [k \in 1..n |-> InputDoc[parsed.start + k - 1]]
            /\ stdout = << <<"Extracted ">> \o Str(n)
                           \o (IF n = 1 THEN <<" page">> ELSE <<" page", "s">>)
                           \o <<" (">> \o Str(parsed.start) \o <<":">>
                           \o Str(parsed.end) \o <<") to ">> \o <<output_path>> >>

\* "2:3" on a three-page document: two pages, worded "pages".
C3_Witness ==
    /\ ExcerptParsed
    /\ page_range = <<"2", ":", "3">>
    /\ TotalPages = 3
    /\ fs[output_path].pages = <<InputDoc[2], InputDoc[3]>>
    /\ exit_code = 0

\* The decimal spellings of n: plain, and with a leading zero.
Numerals(n) == {Str(n), <<"0">> \o Str(n)}

\* C4: for T >= 1 and 1 <= N <= M <= T, "N" parses to (N, N), "N:" to (N, T),
\* ":N" to (1, N) and "N:M" to (N, M).
C4_ValidForms ==
    (ExcerptParsed /\ TotalPages >= 1) =>
        \A N \in 1..TotalPages : \A sN \in Numerals(N) :
            /\ page_range = sN => parsed = Returned(N, N)
            /\ page_range = sN \o <<":">> => parsed = Returned(N, TotalPages)
            /\ page_range = <<":">> \o sN => parsed = Returned(1, N)
            /\ \A M \in N..TotalPages : \A sM \in Numerals(M) :
                 page_range = sN \o <<":">> \o sM => parsed = Returned(N, M)

\* "2:" on a three-page document gives (2, 3).
C4_Witness ==
    /\ ExcerptParsed
    /\ page_range = <<"2", ":">>
    /\ TotalPages = 3
    /\ parsed = Returned(2, 3)

RejectionCauses(s, total) ==
    LET parts == Split1(s, ":")
    IN  IF Len(parts) = 1
        THEN IF ~DecimalLiteral(s) THEN {"non_integer"}
             ELSE IF LiteralValue(s) < 1 \/ LiteralValue(s) > total
             THEN {"page_out_of_range"}
             ELSE {}
        ELSE LET startOk == parts[1] = <<>> \/ DecimalLiteral(parts[1])
                 endOk   == parts[2] = <<>> \/ DecimalLiteral(parts[2])
                 start   == IF parts[1] = <<>> THEN 1 ELSE LiteralValue(parts[1])
                 end     == IF parts[2] = <<>> THEN total ELSE LiteralValue(parts[2])
             IN  (IF ~startOk \/ ~endOk THEN {"non_integer"} ELSE {})
                 \cup (IF startOk /\ start < 1 THEN {"start_lt_1"} ELSE {})
                 \cup (IF endOk /\ end > total THEN {"end_gt_total"} ELSE {})
                 \cup (IF startOk /\ endOk /\ start > end
                       THEN {"start_gt_end"} ELSE {})

\* The cause a message names, read off its fixed text.  A function of the
\* message alone: two messages of different causes are different messages.
MessageCause(msg) ==
    CASE msg[1] = "Page " -> "page_out_of_range"
      [] msg[1] \in {"Invalid page number: ",
                     "invalid literal for int() with base 10: '"} -> "non_integer"
      [] msg[1] = "Start page " /\ msg[Len(msg)] = " must be >= 1" -> "start_lt_1"
      [] msg[1] = "End page " -> "end_gt_total"
      [] msg[1] = "Start page "
           /\ (\E i \in DOMAIN msg : msg[i] = " must be <= end page ")
           -> "start_gt_end"
      [] OTHER -> "unknown"

\* C6: whenever the range string denotes a start < 1, an end > T, a start >
\* end, a bare page outside 1..T or a token that is not an integer,
\* parse_page_range raises ValueError with a non-empty message, and the
\* message names one of the causes present, so that the messages of
\* different causes differ.
C6_RejectsWithDistinctMessages ==
    (ExcerptParsed /\ RejectionCauses(page_range, TotalPages) # {}) =>
        /\ ~parsed.ok
        /\ parsed.exc = "ValueError"
        /\ parsed.msg # <<>>
        /\ MessageCause(parsed.msg) \in RejectionCauses(page_range, TotalPages)

\* "3:2" on a three-page document: start > end alone, and its message.
C6_Witness ==
    /\ ExcerptParsed
    /\ page_range = <<"3", ":", "2">>
    /\ TotalPages = 3
    /\ RejectionCauses(page_range, TotalPages) = {"start_gt_end"}
    /\ parsed.msg = <<"Start page ", "3", " must be <= end page ", "2">>
    /\ exit_code = 1

\* A token that is not an integer, or an integer outside 0..k-1.
BadToken(tok, k) ==
    ~DecimalLiteral(tok) \/ LiteralValue(tok) \notin 0..(k - 1)

\* C7 as stated: every non-empty line with a token that is not an integer in
\* 0..k-1 (negative integers included) prints the invalid-input message and
\* shows the prompt again, and never returns a selection or ends the program.
C7_BadLineReprompts ==
    [][(pc = "awaiting" /\ stdin.pending /\ stdin.line # <<>>
          /\ \E tok \in Tokens(stdin.line) :
               BadToken(tok, Len(dimensions_to_pages)))
        => /\ pc' = "awaiting"
           /\ stdout' = stdout \o <<INVALID_INPUT, SELECT_DIMENSIONS>>
           /\ selection' = selection
           /\ exit_code' = exit_code]_vars

\* C8 as stated: every failure before the save step (equal paths, an empty
\* line at the prompt, an invalid range), with the output given or omitted,
\* returns 1, never invokes save, and leaves the output path neither created
\* nor written.
C8_EarlyFailureLeavesNoFile ==
    (pc = "done"
      /\ \/ args.input = output_path
         \/ (args.func = "filter_command" /\ selection.is_none)
         \/ (args.func = "excerpt_command" /\ parsed.called /\ ~parsed.ok)) =>
        /\ exit_code = 1
        /\ saves = <<>>
        /\ fs[output_path] = InitFs(InputDoc)[output_path]

\* A line the lookup dimensions_list[int(index)] rejects: a token that is not
\* an integer, or an integer that is no offset of a list of k entries.
RejectedLine(line, k) ==
    \E tok \in Tokens(line) :
        ~DecimalLiteral(tok) \/ LiteralValue(tok) \notin (0 - k)..(k - 1)

C10_ReturnedPairInBounds ==
    ExcerptParsed =>
        /\ parsed.ok =>
             /\ 1 <= parsed.start
             /\ parsed.start <= parsed.end
             /\ parsed.end <= TotalPages
             /\ reads # <<>>
             /\ \A k \in DOMAIN reads : reads[k] \in 0..(TotalPages - 1)
             /\ Len(fs[output_path].pages) >= 1
        /\ TotalPages = 0 => ~parsed.ok
        /\ ~parsed.ok => reads = <<>>

\* "1:" on a one-page document reads offset 0 alone.
C10_Witness ==
    /\ ExcerptParsed
    /\ page_range = <<"1", ":">>
    /\ TotalPages = 1
    /\ parsed.ok
    /\ reads = <<0>>

============================================================================
